---- MODULE Spec2Model ----
(***************************************************************************)
(* Model of encoder.c: a Base64 (MIME) encoder.                            *)
(*                                                                         *)
(*   base64_encode        stream driver: reads blocks of up to 3 bytes,    *)
(*                        encodes each, writes a CRLF after 19 blocks      *)
(*   base64_encode_block  block transform: 1..3 bytes to 4 characters      *)
(*                                                                         *)
(* Characters are one-character strings; the terminating \0 of a C string  *)
(* is the empty string NUL.  C arrays are 1-based sequences here, so the   *)
(* C element a[i] is a[i+1].                                               *)
(***************************************************************************)
EXTENDS Integers, Sequences, FiniteSets

VARIABLES
    in,       \* contents of the input file (sequence of bytes)
    pos,      \* read position of the stream `in`
    in_eof,   \* end-of-file indicator of the stream `in` (what feof reports)
    out,      \* characters written to the stream `out` so far
    buf_in,   \* uint8_t buf_in[3]
    buf_out,  \* char buf_out[4 + 1]
    eof,      \* bool eof
    i,        \* loop counter of the for loop of base64_encode
    nread,    \* size_t nread; len_in of the block transform
    rd,       \* history: the bytes fread has delivered, in order
    pc        \* position in base64_encode (or in the block transform alone)

vars == <<in, pos, in_eof, out, buf_in, buf_out, eof, i, nread, rd, pc>>

-----------------------------------------------------------------------------
(* Bounds of the model.                                                    *)

\* longest input file, in bytes (39 blocks: two full lines and a third)
MaxLen == 117
\* input files of one length differ in their first byte: 0..MaxSeed
MaxSeed == 1
\* number of sample byte values the block transform is tried on
MaxSample == 12

-----------------------------------------------------------------------------
(* Program constants.                                                      *)

\* faulty variant: one block more per line
LineBlocksOff == 19 + 1

\* blocks per output line
LineBlocks == 19
\* sizeof buf_in
BlockLen == 3
\* characters of an output block
OutLen == 4

NUL == ""
CR == "\r"
LF == "\n"
PAD == "="

\* faulty variant: the URL-safe alphabet
base64url_table ==
    << "A","B","C","D","E","F","G","H","I","J","K","L","M",
       "N","O","P","Q","R","S","T","U","V","W","X","Y","Z",
       "a","b","c","d","e","f","g","h","i","j","k","l","m",
       "n","o","p","q","r","s","t","u","v","w","x","y","z",
       "0","1","2","3","4","5","6","7","8","9","-","_" >>

base64_table ==
    << "A","B","C","D","E","F","G","H","I","J","K","L","M",
       "N","O","P","Q","R","S","T","U","V","W","X","Y","Z",
       "a","b","c","d","e","f","g","h","i","j","k","l","m",
       "n","o","p","q","r","s","t","u","v","w","x","y","z",
       "0","1","2","3","4","5","6","7","8","9","+","/" >>

-----------------------------------------------------------------------------
(* uint32_t arithmetic.                                                    *)

Pow2(k) == 2 ^ k

\* a & b, bit by bit
BitAndOf[a \in Nat, b \in Nat] ==
    IF a = 0 \/ b = 0 THEN 0
    ELSE (a % 2) * (b % 2) + 2 * BitAndOf[a \div 2, b \div 2]

BitAnd(a, b) == BitAndOf[a, b]

\* a | b, bit by bit
BitOrOf[a \in Nat, b \in Nat] ==
    IF a = 0 THEN b
    ELSE IF b = 0 THEN a
    ELSE (IF a % 2 = 1 \/ b % 2 = 1 THEN 1 ELSE 0) + 2 * BitOrOf[a \div 2, b \div 2]

BitOr(a, b) == BitOrOf[a, b]

\* a << k in 32 bits: the bits shifted past bit 31 are lost
Shl32(a, k) == IF k = 0 THEN a ELSE (a % Pow2(32 - k)) * Pow2(k)

\* a >> k
Shr32(a, k) == a \div Pow2(k)

-----------------------------------------------------------------------------
(* base64_encode_block                                                     *)

\* faulty variant: the division rounds down
LenOutFloor(len_in) == (8 * len_in) \div 6

\* const size_t len_out = (8*len_in + 5)/6;
LenOut(len_in) == (8 * len_in + 5) \div 6

\* faulty variant: the bytes are packed in little-endian order
InShiftLE(k) == 8 * k

\* 8 * (3-i-1): position of input byte k in the 24-bit field
InShift(k) == 8 * (3 - k - 1)

\* Stage 1: for (i = 0; i < len_in; ++i) buf |= ((uint32_t)buf_in[i]) << ...
RECURSIVE Stage1(_, _, _, _)
Stage1(buf, k, bin, len_in) ==
    IF k < len_in
    THEN Stage1(BitOr(buf, Shl32(bin[k + 1], InShift(k))), k + 1, bin, len_in)
    ELSE buf

\* uint32_t msk = ((uint32_t)0x3F) << (3*6);
Msk0 == Shl32(63, 3 * 6)

\* 6*(4-i-1): position of output group k in the 24-bit field
OutShift(k) == 6 * (4 - k - 1)

\* base64_table[(buf & msk) >> (6*(4-i-1))]
Symbol(buf, msk, k) == base64_table[Shr32(BitAnd(buf, msk), OutShift(k)) + 1]

\* Stage 2: for (i = 0; i < len_out; ++i, msk >>= 6) buf_out[i] = ...
RECURSIVE Stage2(_, _, _, _, _)
Stage2(bout, buf, msk, k, len_out) ==
    IF k < len_out
    THEN Stage2([bout EXCEPT ![k + 1] = Symbol(buf, msk, k)],
                buf, Shr32(msk, 6), k + 1, len_out)
    ELSE bout

\* faulty variant: the padding starts one character early
RECURSIVE Stage25Early(_, _)
Stage25Early(bout, k) ==
    IF k - 1 < OutLen
    THEN Stage25Early([bout EXCEPT ![k] = PAD], k + 1)
    ELSE bout

\* Stage 2.5: for (i = len_out; i < 4; ++i) buf_out[i] = '=';
RECURSIVE Stage25(_, _)
Stage25(bout, k) ==
    IF k < OutLen
    THEN Stage25([bout EXCEPT ![k + 1] = PAD], k + 1)
    ELSE bout

\* the value of buf_out after base64_encode_block(buf_out, buf_in, len_in)
base64_encode_block(bout, bin, len_in) ==
    LET len_out == LenOut(len_in)
        buf     == Stage1(0, 0, bin, len_in)
    IN  Stage25(Stage2(bout, buf, Msk0, 0, len_out), len_out)

-----------------------------------------------------------------------------
(* The input stream and the output stream.                                 *)

Min(a, b) == IF a < b THEN a ELSE b

\* what fread(buf, 1, want, in) returns: the bytes left, at most `want`
\* (a regular file without read errors: a short count means end of file)
FreadCount(want) == Min(want, Len(in) - pos)

\* buf_in after the fread: the first n elements are overwritten
FreadBuf(n) ==
    [k \in 1..BlockLen |-> IF k <= n THEN in[pos + k] ELSE buf_in[k]]

\* the characters "%s" prints: up to the first \0
RECURSIVE CString(_, _)
CString(s, k) ==
    IF k > Len(s) \/ s[k] = NUL THEN << >>
    ELSE <<s[k]>> \o CString(s, k + 1)

-----------------------------------------------------------------------------
(* Initial states: main has opened the file and calls base64_encode.       *)

\* the byte values of the input files: a walk through 0..255
ByteAt(seed, k) == (seed + 37 * k) % 256

InputOf(n, seed) == [k \in 1..n |-> ByteAt(seed, k - 1)]

Inputs == { InputOf(n, s) : n \in 0..MaxLen, s \in 0..MaxSeed }

\* buf_in is not initialized: whatever the stack holds
Garbage == { <<0, 0, 0>>, <<255, 255, 255>> }

Init ==
    /\ in \in Inputs
    /\ pos = 0
    /\ in_eof = FALSE
    /\ out = << >>
    /\ buf_in \in Garbage
    /\ buf_out = <<NUL, NUL, NUL, NUL, NUL>>
    /\ eof = FALSE
    /\ i = 0
    /\ nread = 0
    /\ rd = << >>
    /\ pc = "entry"

-----------------------------------------------------------------------------
(* base64_encode, one action per statement.                                *)

\* bool eof = feof(in);
Entry ==
    /\ pc = "entry"
    /\ eof' = in_eof
    /\ pc' = "while"
    /\ UNCHANGED <<in, pos, in_eof, out, buf_in, buf_out, i, nread, rd>>

\* while (!eof) { for (size_t i = 0; ...
While ==
    /\ pc = "while"
    /\ IF ~eof
       THEN i' = 0 /\ pc' = "for"
       ELSE i' = i /\ pc' = "done"
    /\ UNCHANGED <<in, pos, in_eof, out, buf_in, buf_out, eof, nread, rd>>

\* faulty variant: i <= 19 && !eof
ForCondLE == i <= LineBlocks /\ ~eof

\* i < 19 && !eof
ForCond == i < LineBlocks /\ ~eof

For ==
    /\ pc = "for"
    /\ pc' = IF ForCond THEN "fread" ELSE "crlf"
    /\ UNCHANGED <<in, pos, in_eof, out, buf_in, buf_out, eof, i, nread, rd>>

\* size_t nread = fread(buf_in, 1, sizeof buf_in, in);
Fread ==
    /\ pc = "fread"
    /\ LET n == FreadCount(BlockLen) IN
         /\ nread' = n
         /\ buf_in' = FreadBuf(n)
         /\ pos' = pos + n
         /\ in_eof' = (in_eof \/ n < BlockLen)
         /\ rd' = rd \o [k \in 1..n |-> in[pos + k]]
    /\ pc' = "check"
    /\ UNCHANGED <<in, out, buf_out, eof, i>>

\* faulty variant: the empty read leaves the function instead of the for loop
CheckReturn ==
    /\ pc = "check"
    /\ IF nread = 0
       THEN IF in_eof
            THEN eof' = TRUE /\ pc' = "done"
            ELSE eof' = eof /\ pc' = "abort"
       ELSE eof' = eof /\ pc' = "encode"
    /\ UNCHANGED <<in, pos, in_eof, out, buf_in, buf_out, i, nread, rd>>

\* faulty variant: the empty read sets eof but does not break
CheckNoBreak ==
    /\ pc = "check"
    /\ IF nread = 0
       THEN IF in_eof
            THEN eof' = TRUE /\ pc' = "encode"
            ELSE eof' = eof /\ pc' = "abort"
       ELSE eof' = eof /\ pc' = "encode"
    /\ UNCHANGED <<in, pos, in_eof, out, buf_in, buf_out, i, nread, rd>>

\* faulty variant: the test for the empty read is missing
CheckNone ==
    /\ pc = "check"
    /\ eof' = eof
    /\ pc' = "encode"
    /\ UNCHANGED <<in, pos, in_eof, out, buf_in, buf_out, i, nread, rd>>

\* if (nread == 0) { assert(feof(in)); eof = true; break; }
Check ==
    /\ pc = "check"
    /\ IF nread = 0
       THEN IF in_eof
            THEN eof' = TRUE /\ pc' = "crlf"
            ELSE eof' = eof /\ pc' = "abort"
       ELSE eof' = eof /\ pc' = "encode"
    /\ UNCHANGED <<in, pos, in_eof, out, buf_in, buf_out, i, nread, rd>>

\* base64_encode_block(buf_out, buf_in, nread);
Encode ==
    /\ pc = "encode"
    /\ buf_out' = base64_encode_block(buf_out, buf_in, nread)
    /\ pc' = "write"
    /\ UNCHANGED <<in, pos, in_eof, out, buf_in, eof, i, nread, rd>>

\* fprintf(out, "%s", buf_out); then ++i
WriteBlock ==
    /\ pc = "write"
    /\ out' = out \o CString(buf_out, 1)
    /\ i' = i + 1
    /\ pc' = "for"
    /\ UNCHANGED <<in, pos, in_eof, buf_in, buf_out, eof, nread, rd>>

\* faulty variant: no CRLF after a pass that wrote no block
CrlfIfBlocks ==
    /\ pc = "crlf"
    /\ out' = IF i > 0 THEN out \o <<CR, LF>> ELSE out
    /\ pc' = "while"
    /\ UNCHANGED <<in, pos, in_eof, buf_in, buf_out, eof, i, nread, rd>>

\* fprintf(out, "\r\n");
Crlf ==
    /\ pc = "crlf"
    /\ out' = out \o <<CR, LF>>
    /\ pc' = "while"
    /\ UNCHANGED <<in, pos, in_eof, buf_in, buf_out, eof, i, nread, rd>>

Next ==
    \/ Entry
    \/ While
    \/ For
    \/ Fread
    \/ Check
    \/ Encode
    \/ WriteBlock
    \/ Crlf

Spec == Init /\ [][Next]_vars

\* the program is one thread that runs to completion
FairSpec == Spec /\ WF_vars(Next)

-----------------------------------------------------------------------------
(* The block transform alone, on every block of sample bytes.              *)

SampleBytes == { (29 * k) % 256 : k \in 0..MaxSample } \cup {77, 97, 110, 255}

BlockInit ==
    /\ in = << >>
    /\ pos = 0
    /\ in_eof = FALSE
    /\ out = << >>
    /\ buf_in \in [1..BlockLen -> SampleBytes]
    /\ buf_out = <<NUL, NUL, NUL, NUL, NUL>>
    /\ eof = FALSE
    /\ i = 0
    /\ nread \in 1..BlockLen
    /\ rd = << >>
    /\ pc = "block"

BlockCall ==
    /\ pc = "block"
    /\ buf_out' = base64_encode_block(buf_out, buf_in, nread)
    /\ pc' = "block_done"
    /\ UNCHANGED <<in, pos, in_eof, out, buf_in, eof, i, nread, rd>>

BlockNext == BlockCall

BlockSpec == BlockInit /\ [][BlockNext]_vars

-----------------------------------------------------------------------------
(* Reference definitions the properties are stated with: the Base64        *)
(* alphabet and decoder of RFC 2045 / RFC 4648, and the shape of the text. *)

Upper == <<"A","B","C","D","E","F","G","H","I","J","K","L","M",
           "N","O","P","Q","R","S","T","U","V","W","X","Y","Z">>

Lower == <<"a","b","c","d","e","f","g","h","i","j","k","l","m",
           "n","o","p","q","r","s","t","u","v","w","x","y","z">>

Digit == <<"0","1","2","3","4","5","6","7","8","9">>

\* value 0..63 -> character
MimeAlphabet == Upper \o Lower \o Digit \o <<"+", "/">>

MimeSymbols == { MimeAlphabet[k] : k \in 1..64 }

\* character -> value 0..63, or -1
MimeValue(c) ==
    IF c \in MimeSymbols
    THEN (CHOOSE k \in 1..64 : MimeAlphabet[k] = c) - 1
    ELSE -1

IsBreak(c) == c = CR \/ c = LF

\* position k of the text is the CR or the LF of a CRLF pair
InCRLF(s, k) ==
    \/ s[k] = CR /\ k < Len(s) /\ s[k + 1] = LF
    \/ s[k] = LF /\ k > 1 /\ s[k - 1] = CR

\* the text without its CRLF pairs
StripCRLF(s) ==
    LET marked == [k \in 1..Len(s) |-> <<s[k], InCRLF(s, k)>>]
        kept   == SelectSeq(marked, LAMBDA m : ~m[2])
    IN  [k \in 1..Len(kept) |-> kept[k][1]]

\* number of CRLF pairs in the text
CountCRLF(s) == Cardinality({ k \in 1..(Len(s) - 1) : s[k] = CR /\ s[k + 1] = LF })

EndsWithCRLF(s) == Len(s) >= 2 /\ s[Len(s) - 1] = CR /\ s[Len(s)] = LF

\* index of the last line-break character of the text, 0 if none
LastBreak(s) ==
    IF \E k \in 1..Len(s) : IsBreak(s[k])
    THEN CHOOSE k \in 1..Len(s) : IsBreak(s[k]) /\ \A m \in (k + 1)..Len(s) : ~IsBreak(s[m])
    ELSE 0

\* characters of the current (unterminated) line
TailChars(s) == Len(s) - LastBreak(s)

\* number of characters other than line breaks after position k of the text
CharsAfter(s, k) == Cardinality({ m \in (k + 1)..Len(s) : ~IsBreak(s[m]) })

\* the least m with m * d >= a
CeilDiv(a, d) == CHOOSE m \in 0..a : m * d >= a /\ (m = 0 \/ (m - 1) * d < a)

NumBlocks(n) == CeilDiv(n, 3)

DecodeError == <<-1>>

\* the bytes of one group of four characters
DecodeQuad(q) ==
    LET a == MimeValue(q[1])
        b == MimeValue(q[2])
        c == MimeValue(q[3])
        d == MimeValue(q[4])
    IN  IF a < 0 \/ b < 0 THEN DecodeError
        ELSE IF q[3] = PAD /\ q[4] = PAD
             THEN << a * 4 + b \div 16 >>
        ELSE IF c < 0 THEN DecodeError
        ELSE IF q[4] = PAD
             THEN << a * 4 + b \div 16, (b % 16) * 16 + c \div 4 >>
        ELSE IF d < 0 THEN DecodeError
        ELSE << a * 4 + b \div 16, (b % 16) * 16 + c \div 4, (c % 4) * 64 + d >>

\* a standard Base64 decoder: groups of four, padding in the last group only
Decode(s) ==
    IF Len(s) % 4 # 0 THEN DecodeError
    ELSE LET q     == Len(s) \div 4
             bytes == [j \in 1..q |-> DecodeQuad(SubSeq(s, 4 * j - 3, 4 * j))]
         IN  IF q = 0 THEN << >>
             ELSE IF \E j \in 1..q : bytes[j] = DecodeError THEN DecodeError
             ELSE IF \E j \in 1..(q - 1) : Len(bytes[j]) < 3 THEN DecodeError
             ELSE [k \in 1..(3 * (q - 1) + Len(bytes[q])) |->
                      bytes[((k - 1) \div 3) + 1][((k - 1) % 3) + 1]]

\* the 24-bit field of a block: byte 0 most significant, missing bytes zero
Field24(bin, len_in) ==
    (bin[1] * 65536)
    + (IF len_in >= 2 THEN bin[2] * 256 ELSE 0)
    + (IF len_in >= 3 THEN bin[3] ELSE 0)

\* the k-th 6-bit group of the field, counted from the most-significant end
Group6(field, k) == (field \div (64 ^ (3 - k))) % 64

\* the four characters of buf_out
Text4(bout) == SubSeq(bout, 1, 4)

-----------------------------------------------------------------------------
(* C1: the block transform packs 1..3 bytes big-endian into a 24-bit       *)
(* field, missing bytes zero, and writes for every i < ceil(8*len_in/6)    *)
(* the table symbol of the i-th 6-bit group from the most-significant end; *)
(* "Man" gives "TWFu", "Ma" gives "TWE=", "M" gives "TQ==".                *)
C1_BlockSymbols ==
    pc = "block_done" =>
        /\ \A k \in 0..(CeilDiv(8 * nread, 6) - 1) :
               buf_out[k + 1] = MimeAlphabet[Group6(Field24(buf_in, nread), k) + 1]
        /\ (nread = 3 /\ buf_in = <<77, 97, 110>>) => Text4(buf_out) = <<"T", "W", "F", "u">>
        /\ (nread = 2 /\ buf_in[1] = 77 /\ buf_in[2] = 97) => Text4(buf_out) = <<"T", "W", "E", "=">>
        /\ (nread = 1 /\ buf_in[1] = 77) => Text4(buf_out) = <<"T", "Q", "=", "=">>

C1_Witness ==
    /\ pc = "block_done"
    /\ nread = 2
    /\ buf_in = <<77, 97, 255>>
    /\ Text4(buf_out) = <<"T", "W", "E", "=">>

(* C2: the block transform fills exactly 4 characters: 4, 3 or 2 alphabet  *)
(* symbols for 3, 2 or 1 input bytes, followed by 0, 1 or 2 '=' and        *)
(* nothing else; the padding comes after all the symbols.                  *)
C2_BlockPadding ==
    pc = "block_done" =>
        /\ Len(CString(buf_out, 1)) = 4
        /\ \A k \in 1..4 :
               IF k <= nread + 1
               THEN buf_out[k] \in MimeSymbols
               ELSE buf_out[k] = PAD

C2_Witness ==
    /\ pc = "block_done"
    /\ nread = 1
    /\ buf_out[2] \in MimeSymbols
    /\ buf_out[3] = PAD
    /\ buf_out[4] = PAD

-----------------------------------------------------------------------------
(* Properties of the stream driver.                                        *)

\* the four characters of block j (from 0) of the input file
BlockOf(bytes, j) ==
    LET n   == Min(3, Len(bytes) - 3 * j)
        bin == [k \in 1..3 |-> IF k <= n THEN bytes[3 * j + k] ELSE 0]
    IN  [k \in 1..4 |->
            IF k <= CeilDiv(8 * n, 6)
            THEN MimeAlphabet[Group6(Field24(bin, n), k - 1) + 1]
            ELSE PAD]

\* the encoding of the input file, block after block, without line breaks
Blocks(bytes) ==
    LET quads == [j \in 0..(NumBlocks(Len(bytes)) - 1) |-> BlockOf(bytes, j)]
    IN  [p \in 1..(4 * NumBlocks(Len(bytes))) |-> quads[(p - 1) \div 4][((p - 1) % 4) + 1]]

\* the first `n` characters of the text are one line: no line break in them
NoBreakIn(s, n) == Len(s) >= n /\ \A k \in 1..n : ~IsBreak(s[k])

(* C3: round trip: for every input, a standard Base64 decoder applied to   *)
(* the complete output with its CRLFs removed gives the input back.        *)
C3_RoundTrip ==
    pc = "done" => Decode(StripCRLF(out)) = in

C3_Witness ==
    /\ pc = "done"
    /\ Len(in) = 59
    /\ Decode(StripCRLF(out)) = in

(* C4, as stated: a 57-byte input gives exactly 76 characters followed by  *)
(* one CRLF, with no internal line break.                                  *)
C4_OneCRLF ==
    (pc = "done" /\ Len(in) = 57) =>
        /\ NoBreakIn(out, 76)
        /\ out = SubSeq(out, 1, 76) \o <<CR, LF>>

(* C4, amended: a 57-byte input gives exactly 76 characters with no        *)
(* internal line break, followed by two CRLFs: the one that ends the line  *)
(* of 19 blocks and the one of the last pass, which reads no block.        *)
C4_TwoCRLF ==
    (pc = "done" /\ Len(in) = 57) =>
        /\ NoBreakIn(out, 76)
        /\ out = SubSeq(out, 1, 76) \o <<CR, LF, CR, LF>>

C4_Witness ==
    /\ pc = "done"
    /\ Len(in) = 57
    /\ Len(out) = 80
    /\ SubSeq(out, 77, 80) = <<CR, LF, CR, LF>>

(* C5: a 60-byte input gives the first 76 characters (19 blocks), a CRLF,  *)
(* the 4 characters of the last block, one CRLF, and nothing else.         *)
C5_SixtyBytes ==
    (pc = "done" /\ Len(in) = 60) =>
        /\ NoBreakIn(out, 76)
        /\ out = SubSeq(Blocks(in), 1, 76) \o <<CR, LF>>
                   \o SubSeq(Blocks(in), 77, 80) \o <<CR, LF>>

C5_Witness ==
    /\ pc = "done"
    /\ Len(in) = 60
    /\ Len(out) = 84
    /\ SubSeq(out, 77, 78) = <<CR, LF>>

(* C6: line-break cadence: at most 19 blocks are written since the last    *)
(* CRLF (or the start), the line counter i is that number of blocks, a     *)
(* block is written only to a line of fewer than 19 blocks, so that the    *)
(* CRLF follows the 19th block before any further block, and no line of    *)
(* the output holds more than 76 characters.                               *)
C6_LineCadence ==
    /\ TailChars(out) <= 4 * 19
    /\ pc \in {"for", "fread", "check", "encode", "write", "crlf"} => TailChars(out) = 4 * i
    /\ pc = "write" => TailChars(out) < 4 * 19
    /\ \A p \in 1..(Len(out) - 76) : \E q \in p..(p + 76) : IsBreak(out[q])
    /\ \A k \in 1..Len(out) :
           /\ out[k] = CR => (k < Len(out) /\ out[k + 1] = LF)
           /\ out[k] = LF => (k > 1 /\ out[k - 1] = CR)

C6_Witness ==
    /\ pc = "write"
    /\ Len(in) = 115
    /\ CountCRLF(out) = 1
    /\ TailChars(out) = 4 * 18

(* C7: one CRLF per outer pass, also a pass that read no block: an input   *)
(* of B = ceil(n/3) blocks gives exactly floor(B/19) + 1 CRLFs and ends    *)
(* with a CRLF; empty input gives one CRLF and no block; a positive        *)
(* multiple of 19 blocks ends with two consecutive CRLFs.                  *)
C7_CRLFCount ==
    pc = "done" =>
        LET B == NumBlocks(Len(in)) IN
        /\ CountCRLF(out) = (B \div 19) + 1
        /\ EndsWithCRLF(out)
        /\ Len(in) = 0 => out = <<CR, LF>>
        /\ (B > 0 /\ B % 19 = 0) =>
               (Len(out) >= 4 /\ SubSeq(out, Len(out) - 3, Len(out)) = <<CR, LF, CR, LF>>)
        /\ (B % 19 # 0) =>
               (Len(out) >= 4 /\ SubSeq(out, Len(out) - 3, Len(out) - 2) # <<CR, LF>>)

C7_Witness ==
    /\ pc = "done"
    /\ NumBlocks(Len(in)) = 38
    /\ CountCRLF(out) = 3
    /\ SubSeq(out, Len(out) - 3, Len(out)) = <<CR, LF, CR, LF>>

(* C8: for every finite input the driver terminates, and at termination    *)
(* every input byte has been read exactly once, in order, and exactly      *)
(* ceil(n/3) blocks have been written in input order, with nothing but the *)
(* CRLFs of the line cadence between them; the read that returned 0 bytes  *)
(* wrote no block.                                                         *)
C8_Terminates ==
    /\ <>(pc = "done")
    /\ [](pc = "done" =>
            /\ rd = in
            /\ pos = Len(in)
            /\ nread = 0
            /\ Len(StripCRLF(out)) = 4 * NumBlocks(Len(in))
            /\ StripCRLF(out) = Blocks(in))

C8_Witness ==
    /\ pc = "done"
    /\ Len(in) = 61
    /\ rd = in
    /\ Len(StripCRLF(out)) = 4 * 21

(* C9: the block transform is called only with len_in in {1,2,3}: a read   *)
(* that returned 0 bytes never reaches it, and the driver never gets more  *)
(* than the 3 bytes it asks for.                                           *)
C9_LenInRange ==
    /\ pc \in {"encode", "write"} => nread \in {1, 2, 3}
    /\ nread <= 3

C9_Witness ==
    /\ pc = "encode"
    /\ nread = 2
    /\ pos = Len(in)
    /\ Len(in) = 59

(* C10: the padding character occurs in the output only inside the last    *)
(* 4-character block written; every earlier block is 4 alphabet symbols;   *)
(* when the input length is a multiple of 3 the complete output has no     *)
(* padding character at all.                                               *)
C10_PaddingLast ==
    /\ \A k \in 1..Len(out) :
           /\ out[k] \in MimeSymbols \cup {PAD, CR, LF}
           /\ out[k] = PAD => CharsAfter(out, k) <= 3
    /\ (Len(out) - 2 * CountCRLF(out)) % 4 = 0
    /\ (pc = "done" /\ Len(in) % 3 = 0) => \A k \in 1..Len(out) : out[k] # PAD

C10_Witness ==
    /\ pc = "done"
    /\ Len(in) = 58
    /\ out[Len(out) - 2] = PAD
    /\ out[Len(out) - 3] = PAD
    /\ \A k \in 1..(Len(out) - 4) : out[k] # PAD

====
